---------------------------- MODULE Spec2Model ----------------------------
(***************************************************************************)
(* Tasty Bites menu API (src/server.js): the in-memory collection          *)
(* menuItems, the counter nextId, the validation function and the five     *)
(* route handlers, one request handled to completion at a time.            *)
(*                                                                         *)
(* A JavaScript value is a record with a type tag t and one slot per kind  *)
(* of payload: b (boolean), n (number), s (string, a sequence of one-      *)
(* character strings), a (array, a sequence of values).  Numbers are       *)
(* integers counting hundredths for prices (12.99 is 1299) and units for   *)
(* ids; the code only ever compares a price with 0.                        *)
(***************************************************************************)
EXTENDS Integers, Sequences, FiniteSets

VARIABLES
    menuItems,  \* the collection, src/server.js:8
    nextId,     \* the id counter, src/server.js:38
    phase,      \* "idle", or "responded" while a response is on its way out
    req,        \* the request that was handled last
    res,        \* the response to it
    before,     \* menuItems, nextId, assigned, deleted as they were before it
    assigned,   \* every id given out so far, in the order given out
    deleted,    \* the ids of the items removed so far
    creates,    \* number of requests answered 201
    deletes,    \* number of DELETE requests answered 200
    served      \* number of requests handled

vars == << menuItems, nextId, phase, req, res, before, assigned, deleted,
           creates, deletes, served >>

\* Requests handled in one run of the store specification.
MaxRequests == 3

----------------------------------------------------------------------------
(* JavaScript values *)

Undefined == [t |-> "undefined", b |-> FALSE, n |-> 0, s |-> << >>, a |-> << >>]
Null      == [t |-> "null",      b |-> FALSE, n |-> 0, s |-> << >>, a |-> << >>]
NaN       == [t |-> "nan",       b |-> FALSE, n |-> 0, s |-> << >>, a |-> << >>]
Obj       == [t |-> "object",    b |-> FALSE, n |-> 0, s |-> << >>, a |-> << >>]
Bool(x)   == [t |-> "boolean",   b |-> x,     n |-> 0, s |-> << >>, a |-> << >>]
Num(x)    == [t |-> "number",    b |-> FALSE, n |-> x, s |-> << >>, a |-> << >>]
Str(x)    == [t |-> "string",    b |-> FALSE, n |-> 0, s |-> x,     a |-> << >>]
Arr(x)    == [t |-> "array",     b |-> FALSE, n |-> 0, s |-> << >>, a |-> x]

\* typeof v
TypeOf(v) ==
    CASE v.t = "undefined" -> "undefined"
      [] v.t = "boolean"   -> "boolean"
      [] v.t \in {"number", "nan"} -> "number"
      [] v.t = "string"    -> "string"
      [] OTHER             -> "object"

\* !v
Falsy(v) ==
    \/ v.t \in {"undefined", "null", "nan"}
    \/ v.t = "boolean" /\ ~v.b
    \/ v.t = "number" /\ v.n = 0
    \/ v.t = "string" /\ Len(v.s) = 0

\* Array.isArray(v)
IsArray(v) == v.t = "array"

\* x === y: NaN equals nothing, arrays and objects are equal by identity only
\* (no handler compares a value with itself).
StrictEq(x, y) ==
    /\ x.t \notin {"nan", "array", "object"}
    /\ x = y

WhiteSpace == {" ", "\t", "\n", "\r"}

RECURSIVE TrimStart(_)
TrimStart(s) ==
    IF Len(s) > 0 /\ Head(s) \in WhiteSpace THEN TrimStart(Tail(s)) ELSE s

RECURSIVE TrimEnd(_)
TrimEnd(s) ==
    IF Len(s) > 0 /\ s[Len(s)] \in WhiteSpace
      THEN TrimEnd(SubSeq(s, 1, Len(s) - 1))
      ELSE s

\* s.trim()
Trim(s) == TrimEnd(TrimStart(s))

----------------------------------------------------------------------------
(* parseInt(string), radix omitted *)

HexDigits ==
    << "0","1","2","3","4","5","6","7","8","9","a","b","c","d","e","f" >>

LowerCase(c) ==
    CASE c = "A" -> "a" [] c = "B" -> "b" [] c = "C" -> "c"
      [] c = "D" -> "d" [] c = "E" -> "e" [] c = "F" -> "f"
      [] OTHER -> c

IsHexDigit(c) == \E i \in 1..Len(HexDigits) : HexDigits[i] = LowerCase(c)

\* The value of a digit character: its place in HexDigits, counted from 0.
DigitValue(c) ==
    (CHOOSE i \in 1..Len(HexDigits) : HexDigits[i] = LowerCase(c)) - 1

IsDigit(c, radix) == IsHexDigit(c) /\ DigitValue(c) < radix

\* The longest prefix of s made of digits of the radix.
RECURSIVE DigitPrefix(_, _)
DigitPrefix(s, radix) ==
    IF Len(s) > 0 /\ IsDigit(Head(s), radix)
      THEN << Head(s) >> \o DigitPrefix(Tail(s), radix)
      ELSE << >>

RECURSIVE DigitsToNumber(_, _, _)
DigitsToNumber(digits, radix, acc) ==
    IF Len(digits) = 0 THEN acc
    ELSE DigitsToNumber(Tail(digits), radix, acc * radix + DigitValue(Head(digits)))

parseInt(str) ==
    LET s0     == TrimStart(str)
        signed == Len(s0) > 0 /\ Head(s0) \in {"+", "-"}
        sign   == IF Len(s0) > 0 /\ Head(s0) = "-" THEN -1 ELSE 1
        s1     == IF signed THEN Tail(s0) ELSE s0
        hex    == Len(s1) >= 2 /\ s1[1] = "0" /\ s1[2] \in {"x", "X"}
        radix  == IF hex THEN 16 ELSE 10
        s2     == IF hex THEN SubSeq(s1, 3, Len(s1)) ELSE s1
        z      == DigitPrefix(s2, radix)
    IN  IF Len(z) = 0 THEN NaN ELSE Num(sign * DigitsToNumber(z, radix, 0))

----------------------------------------------------------------------------
(* The seed collection, src/server.js:8-38 *)

Fields ==
    << "id", "name", "description", "price", "category", "ingredients",
       "available", "notes" >>

\* "notes" stands for any key outside the seven the handlers name: a PUT body
\* may carry it and the merge copies it.

ClassicBurgerName ==
    << "C","l","a","s","s","i","c"," ","B","u","r","g","e","r" >>

ClassicBurgerDescription ==
    << "B","e","e","f"," ","p","a","t","t","y"," ","w","i","t","h"," ","l",
       "e","t","t","u","c","e",","," ","t","o","m","a","t","o",","," ","a",
       "n","d"," ","c","h","e","e","s","e"," ","o","n"," ","a"," ","s","e",
       "s","a","m","e"," ","s","e","e","d"," ","b","u","n" >>

CaesarSaladName ==
    << "C","a","e","s","a","r"," ","S","a","l","a","d" >>

CaesarSaladDescription ==
    << "F","r","e","s","h"," ","r","o","m","a","i","n","e"," ","l","e","t",
       "t","u","c","e"," ","w","i","t","h"," ","C","a","e","s","a","r"," ",
       "d","r","e","s","s","i","n","g",","," ","c","r","o","u","t","o","n",
       "s",","," ","a","n","d"," ","p","a","r","m","e","s","a","n"," ","c",
       "h","e","e","s","e" >>

LavaCakeName ==
    << "C","h","o","c","o","l","a","t","e"," ","L","a","v","a"," ","C","a",
       "k","e" >>

LavaCakeDescription ==
    << "W","a","r","m"," ","c","h","o","c","o","l","a","t","e"," ","c","a",
       "k","e"," ","w","i","t","h"," ","a"," ","m","o","l","t","e","n"," ",
       "c","h","o","c","o","l","a","t","e"," ","c","e","n","t","e","r",",",
       " ","s","e","r","v","e","d"," ","w","i","t","h"," ","v","a","n","i",
       "l","l","a"," ","i","c","e"," ","c","r","e","a","m" >>

ClassicBurgerIngredients ==
    << Str(<<"b","e","e","f">>),
       Str(<<"l","e","t","t","u","c","e">>),
       Str(<<"t","o","m","a","t","o">>),
       Str(<<"c","h","e","e","s","e">>),
       Str(<<"b","u","n">>) >>

CaesarSaladIngredients ==
    << Str(<<"r","o","m","a","i","n","e"," ","l","e","t","t","u","c","e">>),
       Str(<<"c","a","e","s","a","r"," ","d","r","e","s","s","i","n","g">>),
       Str(<<"c","r","o","u","t","o","n","s">>),
       Str(<<"p","a","r","m","e","s","a","n"," ","c","h","e","e","s","e">>) >>

LavaCakeIngredients ==
    << Str(<<"c","h","o","c","o","l","a","t","e">>),
       Str(<<"f","l","o","u","r">>),
       Str(<<"e","g","g","s">>),
       Str(<<"s","u","g","a","r">>),
       Str(<<"b","u","t","t","e","r">>),
       Str(<<"v","a","n","i","l","l","a"," ","i","c","e"," ","c","r","e","a","m">>) >>

Appetizer == <<"a","p","p","e","t","i","z","e","r">>
Entree    == <<"e","n","t","r","e","e">>
Dessert   == <<"d","e","s","s","e","r","t">>
Beverage  == <<"b","e","v","e","r","a","g","e">>

SeedItems ==
    << [id |-> Num(1), name |-> Str(ClassicBurgerName),
        description |-> Str(ClassicBurgerDescription), price |-> Num(1299),
        category |-> Str(Entree), ingredients |-> Arr(ClassicBurgerIngredients),
        available |-> Bool(TRUE), notes |-> Undefined],
       [id |-> Num(2), name |-> Str(CaesarSaladName),
        description |-> Str(CaesarSaladDescription), price |-> Num(999),
        category |-> Str(Appetizer), ingredients |-> Arr(CaesarSaladIngredients),
        available |-> Bool(TRUE), notes |-> Undefined],
       [id |-> Num(3), name |-> Str(LavaCakeName),
        description |-> Str(LavaCakeDescription), price |-> Num(799),
        category |-> Str(Dessert), ingredients |-> Arr(LavaCakeIngredients),
        available |-> Bool(TRUE), notes |-> Undefined] >>

FirstNextId == 4

----------------------------------------------------------------------------
(* validateMenuItem, src/server.js:100-170 *)

MinNameLength        == 3
MinDescriptionLength == 10
MinIngredients       == 1

validCategories == << Appetizer, Entree, Dessert, Beverage >>

\* validCategories.includes(v)
Includes(arr, v) == \E i \in 1..Len(arr) : Str(arr[i]) = v

FieldError(field, message) == [field |-> field, message |-> message]

\* Faulty variant of Checked: the isUpdate flag is ignored, so an update
\* requires every field as a create does.
CheckedAlways(v, isUpdate) == TRUE

\* The guard of every block but the last: !isUpdate || (isUpdate && v !== undefined)
Checked(v, isUpdate) == ~isUpdate \/ (isUpdate /\ ~StrictEq(v, Undefined))

NameErrors(data, isUpdate) ==
    IF ~Checked(data.name, isUpdate) THEN << >>
    ELSE IF Falsy(data.name)
      THEN << FieldError("name", "Name is required") >>
    ELSE IF TypeOf(data.name) # "string"
      THEN << FieldError("name", "Name must be a string") >>
    ELSE IF Len(data.name.s) < MinNameLength
      THEN << FieldError("name", "Name must be at least 3 characters long") >>
    ELSE << >>

DescriptionErrors(data, isUpdate) ==
    IF ~Checked(data.description, isUpdate) THEN << >>
    ELSE IF Falsy(data.description)
      THEN << FieldError("description", "Description is required") >>
    ELSE IF TypeOf(data.description) # "string"
      THEN << FieldError("description", "Description must be a string") >>
    ELSE IF Len(data.description.s) < MinDescriptionLength
      THEN << FieldError("description",
                         "Description must be at least 10 characters long") >>
    ELSE << >>

\* Faulty variant of PriceErrors: the comparison with 0 is missing.
PriceErrorsNoRange(data, isUpdate) ==
    IF ~Checked(data.price, isUpdate) THEN << >>
    ELSE IF StrictEq(data.price, Undefined) \/ StrictEq(data.price, Null)
      THEN << FieldError("price", "Price is required") >>
    ELSE IF TypeOf(data.price) # "number"
      THEN << FieldError("price", "Price must be a number") >>
    ELSE << >>

PriceErrors(data, isUpdate) ==
    IF ~Checked(data.price, isUpdate) THEN << >>
    ELSE IF StrictEq(data.price, Undefined) \/ StrictEq(data.price, Null)
      THEN << FieldError("price", "Price is required") >>
    ELSE IF TypeOf(data.price) # "number"
      THEN << FieldError("price", "Price must be a number") >>
    ELSE IF data.price.t = "number" /\ data.price.n <= 0
      THEN << FieldError("price", "Price must be greater than 0") >>
    ELSE << >>

CategoryErrors(data, isUpdate) ==
    IF ~Checked(data.category, isUpdate) THEN << >>
    ELSE IF Falsy(data.category)
      THEN << FieldError("category", "Category is required") >>
    ELSE IF TypeOf(data.category) # "string"
      THEN << FieldError("category", "Category must be a string") >>
    ELSE IF ~Includes(validCategories, data.category)
      THEN << FieldError("category",
               "Category must be one of: appetizer, entree, dessert, beverage") >>
    ELSE << >>

\* ing => typeof ing !== 'string' || ing.trim().length === 0
InvalidIngredient(ing) == TypeOf(ing) # "string" \/ Len(Trim(ing.s)) = 0

IngredientsErrors(data, isUpdate) ==
    IF ~Checked(data.ingredients, isUpdate) THEN << >>
    ELSE IF Falsy(data.ingredients)
      THEN << FieldError("ingredients", "Ingredients are required") >>
    ELSE IF ~IsArray(data.ingredients)
      THEN << FieldError("ingredients", "Ingredients must be an array") >>
    ELSE IF Len(data.ingredients.a) < MinIngredients
      THEN << FieldError("ingredients", "Ingredients must have at least 1 item") >>
    ELSE IF \E i \in 1..Len(data.ingredients.a) :
                InvalidIngredient(data.ingredients.a[i])
      THEN << FieldError("ingredients",
                         "Each ingredient must be a non-empty string") >>
    ELSE << >>

AvailableErrors(data) ==
    IF ~StrictEq(data.available, Undefined) /\ TypeOf(data.available) # "boolean"
      THEN << FieldError("available", "Available must be a boolean") >>
      ELSE << >>

\* Faulty variant of validateMenuItem: it returns at the first error.
validateFirstOnly(data, isUpdate) ==
    LET all == NameErrors(data, isUpdate) \o DescriptionErrors(data, isUpdate)
                 \o PriceErrors(data, isUpdate) \o CategoryErrors(data, isUpdate)
                 \o IngredientsErrors(data, isUpdate) \o AvailableErrors(data)
    IN  IF Len(all) > 0 THEN << Head(all) >> ELSE << >>

validateMenuItem(data, isUpdate) ==
    NameErrors(data, isUpdate) \o DescriptionErrors(data, isUpdate)
      \o PriceErrors(data, isUpdate) \o CategoryErrors(data, isUpdate)
      \o IngredientsErrors(data, isUpdate) \o AvailableErrors(data)

----------------------------------------------------------------------------
(* The route handlers as functions of the store and the request.  Each     *)
(* yields the store after the request and the response sent.  A response   *)
(* holds the status and the JSON keys the handlers write; item and list    *)
(* are sequences of length 0 (key absent) or 1.                            *)

Reply(status, error, message, about, details, item, list) ==
    [status |-> status, error |-> error, message |-> message, about |-> about,
     details |-> details, item |-> item, list |-> list]

\* { error: 'Menu item not found', message: `No menu item exists with id ${id}` }
NotFound(id) ==
    Reply(404, "Menu item not found", "No menu item exists with id", id,
          << >>, << >>, << >>)

\* { error: 'Validation failed', details: errors }
ValidationFailed(errors) ==
    Reply(400, "Validation failed", "", Undefined, errors, << >>, << >>)

Outcome(items, next, response) ==
    [menuItems |-> items, nextId |-> next, res |-> response]

\* items.findIndex(item => item.id === id): 0-based, -1 when there is none
FindIndex(items, id) ==
    IF \E i \in 1..Len(items) : StrictEq(items[i].id, id)
      THEN (CHOOSE i \in 1..Len(items) :
                /\ StrictEq(items[i].id, id)
                /\ \A j \in 1..(i - 1) : ~StrictEq(items[j].id, id)) - 1
      ELSE -1

\* items[index]
At(items, index) == items[index + 1]

\* Faulty variant of Push: items.unshift(item).
Unshift(items, item) == << item >> \o items

\* items.push(item)
Push(items, item) == Append(items, item)

\* Faulty variant of Splice: items.slice(index, 1), which leaves items alone.
SliceTypo(items, index) == items

\* items.splice(index, 1)
Splice(items, index) ==
    SubSeq(items, 1, index) \o SubSeq(items, index + 2, Len(items))

\* items[index] = item
SetAt(items, index, item) == [items EXCEPT ![index + 1] = item]

\* Faulty variant of Increment: the counter is read and never advanced.
IncrementStuck(n) == n

\* nextId++
Increment(n) == n + 1

\* GET /api/menu
GetMenuHandler(items, next) ==
    Outcome(items, next,
            Reply(200, "", "", Undefined, << >>, << >>,
                  << [count |-> Len(items), items |-> items] >>))

\* GET /api/menu/:id
GetItemHandler(items, next, param) ==
    LET id    == parseInt(param)
        index == FindIndex(items, id)
    IN  IF index = -1
          THEN Outcome(items, next, NotFound(id))
          ELSE Outcome(items, next,
                       Reply(200, "", "", Undefined, << >>,
                             << At(items, index) >>, << >>))

\* The object literal of POST: the six named keys of the body, and the id.
NewMenuItem(body, id) ==
    [id |-> Num(id), name |-> body.name, description |-> body.description,
     price |-> body.price, category |-> body.category,
     ingredients |-> body.ingredients,
     available |-> IF ~StrictEq(body.available, Undefined)
                     THEN body.available ELSE Bool(TRUE),
     notes |-> Undefined]

\* Faulty variant of PostHandler: the id is taken from the counter before the
\* body is validated.
PostHandlerEagerId(items, next, body) ==
    LET errors == validateMenuItem(body, FALSE)
    IN  IF Len(errors) > 0
          THEN Outcome(items, Increment(next), ValidationFailed(errors))
          ELSE LET newMenuItem == NewMenuItem(body, next)
               IN  Outcome(Push(items, newMenuItem), Increment(next),
                           Reply(201, "", "Menu item created successfully",
                                 Undefined, << >>, << newMenuItem >>, << >>))

\* POST /api/menu
PostHandler(items, next, body) ==
    LET errors == validateMenuItem(body, FALSE)
    IN  IF Len(errors) > 0
          THEN Outcome(items, next, ValidationFailed(errors))
          ELSE LET newMenuItem == NewMenuItem(body, next)
               IN  Outcome(Push(items, newMenuItem), Increment(next),
                           Reply(201, "", "Menu item created successfully",
                                 Undefined, << >>, << newMenuItem >>, << >>))

\* Faulty variant of MergeItem: { ...item, id: id, ...body }, the body's own
\* id key wins.
MergeItemBodyId(item, body, id) ==
    [id |-> IF body.id # Undefined THEN body.id ELSE id,
     name |-> IF body.name # Undefined THEN body.name ELSE item.name,
     description |-> IF body.description # Undefined
                       THEN body.description ELSE item.description,
     price |-> IF body.price # Undefined THEN body.price ELSE item.price,
     category |-> IF body.category # Undefined
                    THEN body.category ELSE item.category,
     ingredients |-> IF body.ingredients # Undefined
                       THEN body.ingredients ELSE item.ingredients,
     available |-> IF body.available # Undefined
                     THEN body.available ELSE item.available,
     notes |-> IF body.notes # Undefined THEN body.notes ELSE item.notes]

\* Faulty variant of MergeItem: available defaults to true as in POST.
MergeItemDefaultAvailable(item, body, id) ==
    [id |-> id,
     name |-> IF body.name # Undefined THEN body.name ELSE item.name,
     description |-> IF body.description # Undefined
                       THEN body.description ELSE item.description,
     price |-> IF body.price # Undefined THEN body.price ELSE item.price,
     category |-> IF body.category # Undefined
                    THEN body.category ELSE item.category,
     ingredients |-> IF body.ingredients # Undefined
                       THEN body.ingredients ELSE item.ingredients,
     available |-> IF body.available # Undefined
                     THEN body.available ELSE Bool(TRUE),
     notes |-> IF body.notes # Undefined THEN body.notes ELSE item.notes]

\* { ...item, ...body, id: id }: a key the body holds replaces the item's.
\* A parsed JSON body holds no key with the value undefined, so a key is
\* held exactly when its value is not Undefined.
MergeItem(item, body, id) ==
    [id |-> id,
     name |-> IF body.name # Undefined THEN body.name ELSE item.name,
     description |-> IF body.description # Undefined
                       THEN body.description ELSE item.description,
     price |-> IF body.price # Undefined THEN body.price ELSE item.price,
     category |-> IF body.category # Undefined
                    THEN body.category ELSE item.category,
     ingredients |-> IF body.ingredients # Undefined
                       THEN body.ingredients ELSE item.ingredients,
     available |-> IF body.available # Undefined
                     THEN body.available ELSE item.available,
     notes |-> IF body.notes # Undefined THEN body.notes ELSE item.notes]

\* Faulty variant of PutHandler: the body is validated before the lookup.
PutHandlerValidateFirst(items, next, param, body) ==
    LET id     == parseInt(param)
        index  == FindIndex(items, id)
        errors == validateMenuItem(body, TRUE)
    IN  IF Len(errors) > 0 THEN Outcome(items, next, ValidationFailed(errors))
        ELSE IF index = -1 THEN Outcome(items, next, NotFound(id))
        ELSE LET updatedMenuItem == MergeItem(At(items, index), body, id)
             IN  Outcome(SetAt(items, index, updatedMenuItem), next,
                         Reply(200, "", "Menu item updated successfully",
                               Undefined, << >>, << updatedMenuItem >>, << >>))

\* PUT /api/menu/:id
PutHandler(items, next, param, body) ==
    LET id    == parseInt(param)
        index == FindIndex(items, id)
    IN  IF index = -1 THEN Outcome(items, next, NotFound(id))
        ELSE LET errors == validateMenuItem(body, TRUE)
             IN  IF Len(errors) > 0
                   THEN Outcome(items, next, ValidationFailed(errors))
                   ELSE LET updatedMenuItem == MergeItem(At(items, index), body, id)
                        IN  Outcome(SetAt(items, index, updatedMenuItem), next,
                                    Reply(200, "", "Menu item updated successfully",
                                          Undefined, << >>,
                                          << updatedMenuItem >>, << >>))

\* DELETE /api/menu/:id
DeleteHandler(items, next, param) ==
    LET id    == parseInt(param)
        index == FindIndex(items, id)
    IN  IF index = -1 THEN Outcome(items, next, NotFound(id))
        ELSE LET deletedItem == At(items, index)
             IN  Outcome(Splice(items, index), next,
                         Reply(200, "", "Menu item deleted successfully",
                               Undefined, << >>, << deletedItem >>, << >>))

----------------------------------------------------------------------------
(* Requests *)

\* {}: a body holding no key
EmptyObject ==
    [id |-> Undefined, name |-> Undefined, description |-> Undefined,
     price |-> Undefined, category |-> Undefined, ingredients |-> Undefined,
     available |-> Undefined, notes |-> Undefined]

With(body, field, value) == [body EXCEPT ![field] = value]

TacoName == << "T","a","c","o" >>

TacoDescription ==
    << "A"," ","d","e","l","i","c","i","o","u","s"," ","t","a","c","o"," ",
       "w","i","t","h"," ","f","r","e","s","h"," ","s","a","l","s","a" >>

TacoIngredients ==
    << Str(<<"t","o","r","t","i","l","l","a">>), Str(<<"b","e","e","f">>) >>

\* A complete valid body that leaves available out.
Taco ==
    [id |-> Undefined, name |-> Str(TacoName),
     description |-> Str(TacoDescription), price |-> Num(450),
     category |-> Str(Entree), ingredients |-> Arr(TacoIngredients),
     available |-> Undefined, notes |-> Undefined]

\* The bodies of the store specification: complete and partial, valid and
\* invalid, with null and wrongly typed values, with an id key of their own.
Bodies ==
    { EmptyObject,
      Taco,
      With(Taco, "available", Bool(FALSE)),
      With(Taco, "id", Num(1)),
      With(With(Taco, "name", Str(<<"H","i">>)), "price", Num(0)),
      With(EmptyObject, "name", Str(<<"H","i">>)),
      With(EmptyObject, "name", Null),
      With(EmptyObject, "description", Str(<<"t","i","n","y">>)),
      With(EmptyObject, "price", Num(1050)),
      With(EmptyObject, "price", Num(0)),
      With(EmptyObject, "price", Null),
      With(EmptyObject, "price", Str(<<"4",".","5">>)),
      With(EmptyObject, "category", Str(<<"p","i","z","z","a">>)),
      With(EmptyObject, "ingredients", Arr(<< Str(<<" ">>) >>)),
      With(EmptyObject, "ingredients", Arr(<< >>)),
      With(EmptyObject, "available", Bool(FALSE)),
      With(EmptyObject, "available", Null),
      With(EmptyObject, "notes", Str(<<"h","o","t">>)),
      With(EmptyObject, "id", Num(2)),
      With(EmptyObject, "id", Num(99)),
      With(EmptyObject, "id", Str(<<"x">>)),
      With(EmptyObject, "id", Null) }

\* The :id path segments of the store specification.
Params ==
    { <<"1">>, <<"2">>, <<"3">>, <<"4">>, <<"5">>, <<"9","9">>,
      <<"2","x">>, <<"0","x","3">>, <<"a","b","c">> }

NameValues ==
    { Undefined, Null, Str(<< >>), Str(<<"H","i">>), Str(TacoName), Num(5) }

DescriptionValues ==
    { Undefined, Null, Str(<<"t","i","n","y">>), Str(TacoDescription),
      Arr(<< >>) }

PriceValues ==
    { Undefined, Null, Num(0), Num(-100), Num(450), Str(<<"4",".","5">>) }

CategoryValues ==
    { Undefined, Null, Str(<< >>), Str(<<"p","i","z","z","a">>), Str(Entree),
      Str(Beverage), Num(1) }

IngredientsValues ==
    { Undefined, Null, Arr(<< >>), Arr(TacoIngredients),
      Arr(<< Str(<<" ">>) >>), Arr(<< Str(<<"b","e","e","f">>), Num(5) >>),
      Str(<<"b","e","e","f">>), Obj }

AvailableValues ==
    { Undefined, Null, Bool(TRUE), Bool(FALSE), Str(<<"t","r","u","e">>) }

\* The bodies of the validation specification: every combination of the
\* values above.
AllBodies ==
    { [id |-> Undefined, name |-> n, description |-> d, price |-> p,
       category |-> c, ingredients |-> i, available |-> a, notes |-> Undefined] :
        n \in NameValues, d \in DescriptionValues, p \in PriceValues,
        c \in CategoryValues, i \in IngredientsValues, a \in AvailableValues }

Request(route, param, body) == [route |-> route, param |-> param, body |-> body]

NoRequest == Request("", << >>, EmptyObject)

NoReply == Reply(0, "", "", Undefined, << >>, << >>, << >>)

Snapshot ==
    [menuItems |-> menuItems, nextId |-> nextId, assigned |-> assigned,
     deleted |-> deleted]

----------------------------------------------------------------------------
(* The state machine *)

Init ==
    /\ menuItems = SeedItems
    /\ nextId = FirstNextId
    /\ phase = "idle"
    /\ req = NoRequest
    /\ res = NoReply
    /\ assigned = << Num(1), Num(2), Num(3) >>
    /\ deleted = {}
    /\ before = [menuItems |-> SeedItems, nextId |-> FirstNextId,
                 assigned |-> << Num(1), Num(2), Num(3) >>, deleted |-> {}]
    /\ creates = 0
    /\ deletes = 0
    /\ served = 0

\* One request handled to completion: the store and the response are the
\* handler's; the other variables record what happened.
Handle(request, out) ==
    /\ phase = "idle"
    /\ menuItems' = out.menuItems
    /\ nextId' = out.nextId
    /\ res' = out.res
    /\ req' = request
    /\ before' = Snapshot
    /\ phase' = "responded"
    /\ served' = served + 1
    /\ assigned' = IF request.route = "POST /api/menu" /\ out.res.status = 201
                     THEN Append(assigned, out.res.item[1].id) ELSE assigned
    /\ creates' = IF request.route = "POST /api/menu" /\ out.res.status = 201
                    THEN creates + 1 ELSE creates
    /\ deleted' = IF request.route = "DELETE /api/menu/:id" /\ out.res.status = 200
                    THEN deleted \cup { out.res.item[1].id } ELSE deleted
    /\ deletes' = IF request.route = "DELETE /api/menu/:id" /\ out.res.status = 200
                    THEN deletes + 1 ELSE deletes

GetMenu ==
    Handle(Request("GET /api/menu", << >>, EmptyObject),
           GetMenuHandler(menuItems, nextId))

GetItem(param) ==
    Handle(Request("GET /api/menu/:id", param, EmptyObject),
           GetItemHandler(menuItems, nextId, param))

Post(body) ==
    Handle(Request("POST /api/menu", << >>, body),
           PostHandler(menuItems, nextId, body))

Put(param, body) ==
    Handle(Request("PUT /api/menu/:id", param, body),
           PutHandler(menuItems, nextId, param, body))

Delete(param) ==
    Handle(Request("DELETE /api/menu/:id", param, EmptyObject),
           DeleteHandler(menuItems, nextId, param))

\* The response has gone out; the server waits for the next request.
Deliver ==
    /\ phase = "responded"
    /\ phase' = "idle"
    /\ req' = NoRequest
    /\ res' = NoReply
    /\ before' = Snapshot
    /\ UNCHANGED << menuItems, nextId, assigned, deleted, creates, deletes, served >>

ListMenu == served < MaxRequests /\ GetMenu

ReadItem == served < MaxRequests /\ \E param \in Params : GetItem(param)

CreateItem == served < MaxRequests /\ \E body \in Bodies : Post(body)

UpdateItem ==
    served < MaxRequests /\ \E param \in Params, body \in Bodies : Put(param, body)

DeleteItem == served < MaxRequests /\ \E param \in Params : Delete(param)

Next == ListMenu \/ ReadItem \/ CreateItem \/ UpdateItem \/ DeleteItem \/ Deliver

Spec == Init /\ [][Next]_vars

\* The validation specification: one POST or one PUT of an existing item,
\* with any body of AllBodies, from the seed collection.
ValidateOnCreate == served = 0 /\ \E body \in AllBodies : Post(body)

ValidateOnUpdate == served = 0 /\ \E body \in AllBodies : Put(<<"2">>, body)

NextValidate == ValidateOnCreate \/ ValidateOnUpdate

SpecValidate == Init /\ [][NextValidate]_vars

----------------------------------------------------------------------------
(* The data model of a menu item, stated on the values themselves *)

NameOK(v) == v.t = "string" /\ Len(v.s) >= 3

DescriptionOK(v) == v.t = "string" /\ Len(v.s) >= 10

PriceOK(v) == v.t = "number" /\ v.n > 0

CategoryOK(v) == v \in { Str(Appetizer), Str(Entree), Str(Dessert), Str(Beverage) }

\* A string with a character that is not white space.
NonBlank(v) == v.t = "string" /\ \E i \in 1..Len(v.s) : v.s[i] \notin WhiteSpace

IngredientsOK(v) ==
    /\ v.t = "array"
    /\ Len(v.a) >= 1
    /\ \A i \in 1..Len(v.a) : NonBlank(v.a[i])

AvailableOK(v) == v.t = "boolean"

ItemOK(item) ==
    /\ NameOK(item.name)
    /\ DescriptionOK(item.description)
    /\ PriceOK(item.price)
    /\ CategoryOK(item.category)
    /\ IngredientsOK(item.ingredients)
    /\ AvailableOK(item.available)

\* The fields validation reports on, in the order it reports them.
ValidatedFields ==
    << "name", "description", "price", "category", "ingredients", "available" >>

\* The rule of a field is violated by value v; an absent required field
\* violates its rule, an absent available does not.
Violates(field, v) ==
    CASE field = "name"        -> ~NameOK(v)
      [] field = "description" -> ~DescriptionOK(v)
      [] field = "price"       -> ~PriceOK(v)
      [] field = "category"    -> ~CategoryOK(v)
      [] field = "ingredients" -> ~IngredientsOK(v)
      [] field = "available"   -> v # Undefined /\ ~AvailableOK(v)

ViolatedInRequest(field) == Violates(field, req.body[field])

PresentAndViolatedInRequest(field) ==
    req.body[field] # Undefined /\ Violates(field, req.body[field])

ErrorFields(details) == [i \in 1..Len(details) |-> details[i].field]

Ids(items) == [i \in 1..Len(items) |-> items[i].id]

Responded(route) == phase = "responded" /\ req.route = route

\* The id the request path names.
PathId == parseInt(req.param)

HeldBefore(id) ==
    \E i \in 1..Len(before.menuItems) : before.menuItems[i].id = id

\* The place in the collection of the item a successful PUT addressed.
Target == CHOOSE i \in 1..Len(before.menuItems) : before.menuItems[i].id = PathId

----------------------------------------------------------------------------
(* Properties *)

\* C1: no two items of the collection share an id; the ids given out (seed
\* ids first) are numbers in strictly increasing order, so a created item's
\* id exceeds every id given out before and a deleted id is never given out
\* again; a successful create returns the id given out last and holds the
\* item at the end of the collection; no item carries a deleted id.
IdsUniqueAndIncreasing ==
    /\ \A i, j \in 1..Len(menuItems) :
          i # j => menuItems[i].id # menuItems[j].id
    /\ \A i \in 1..Len(assigned) : assigned[i].t = "number"
    /\ \A i, j \in 1..Len(assigned) : i < j => assigned[i].n < assigned[j].n
    /\ \A i \in 1..Len(menuItems) :
          /\ menuItems[i].id \notin deleted
          /\ \E k \in 1..Len(assigned) : assigned[k] = menuItems[i].id
    /\ \A d \in deleted : \E k \in 1..Len(assigned) : assigned[k] = d
    /\ Responded("POST /api/menu") /\ res.status = 201 =>
          /\ res.item[1].id = assigned[Len(assigned)]
          /\ menuItems[Len(menuItems)] = res.item[1]
          /\ \A k \in 1..Len(before.assigned) :
                before.assigned[k].n < res.item[1].id.n

\* A create answered 201 after an item was deleted.
CreateAfterDelete ==
    /\ Responded("POST /api/menu")
    /\ res.status = 201
    /\ deleted # {}

\* C2: every item of the collection satisfies the field constraints of the
\* data model, whatever requests were made.
StoredItemsValid == \A i \in 1..Len(menuItems) : ItemOK(menuItems[i])

\* An update refused for a price of 0 or of the wrong type, in a collection
\* that already holds a created item.
InvalidPriceRefused ==
    /\ Responded("PUT /api/menu/:id")
    /\ res.status = 400
    /\ req.body.price \in { Num(0), Null, Str(<<"4",".","5">>) }
    /\ creates >= 1

\* C3: GET and DELETE of an id answer 404 exactly when the id was never given
\* out or was deleted, and 200 otherwise; GET, PUT and DELETE of a deleted id
\* answer 404.
LookupFollowsHistory ==
    /\ phase = "responded"
         /\ req.route \in { "GET /api/menu/:id", "DELETE /api/menu/:id" } =>
          LET known == \E k \in 1..Len(before.assigned) : before.assigned[k] = PathId
              gone  == PathId \in before.deleted
          IN  /\ res.status = 404 <=> (~known \/ gone)
              /\ res.status = 200 <=> (known /\ ~gone)
    /\ phase = "responded"
         /\ req.route \in { "GET /api/menu/:id", "PUT /api/menu/:id",
                            "DELETE /api/menu/:id" }
         /\ PathId \in before.deleted => res.status = 404

\* A GET of an id deleted earlier, answered 404.
GetAfterDelete ==
    /\ Responded("GET /api/menu/:id")
    /\ PathId \in before.deleted
    /\ res.status = 404

\* C4: a PUT of an id the collection does not hold answers 404 whatever the
\* body; a PUT answers 400 only for an id the collection holds.
UpdateOfMissingIsNotFound ==
    Responded("PUT /api/menu/:id") =>
        /\ ~HeldBefore(PathId) => res.status = 404
        /\ res.status = 400 => HeldBefore(PathId)

\* A PUT of a missing id with an invalid body, answered 404.
InvalidUpdateOfMissing ==
    /\ Responded("PUT /api/menu/:id")
    /\ ~HeldBefore(PathId)
    /\ req.body.price = Num(0)
    /\ res.status = 404

\* C5: after a successful PUT the item returned and the item stored in the
\* target's place carry the id of the request path, the ids of the collection
\* are what they were, and they are pairwise different.
UpdateKeepsId ==
    Responded("PUT /api/menu/:id") /\ res.status = 200 =>
        /\ res.item[1].id = PathId
        /\ HeldBefore(PathId)
        /\ menuItems[Target] = res.item[1]
        /\ Ids(menuItems) = Ids(before.menuItems)
        /\ \A i, j \in 1..Len(menuItems) :
              i # j => menuItems[i].id # menuItems[j].id

\* A successful PUT whose body carries an id key that differs from the path's:
\* another item's id, an id never given out, a string or null.
UpdateWithForeignId ==
    /\ Responded("PUT /api/menu/:id")
    /\ res.status = 200
    /\ req.body.id # Undefined
    /\ req.body.id # PathId

\* C6: a successful PUT changes nothing but the keys its body holds: a key the
\* body lacks keeps its value in the target item (available included), a key
\* it holds other than id takes the body's value, every other item, the
\* length and order of the collection and the id counter are unchanged, and
\* the merged item is the one returned; with an empty body the collection is
\* what it was and the item returned is the item as it was.
UpdateChangesOnlySupplied ==
    Responded("PUT /api/menu/:id") /\ res.status = 200 =>
        /\ HeldBefore(PathId)
        /\ Len(menuItems) = Len(before.menuItems)
        /\ \A j \in 1..Len(menuItems) :
              j # Target => menuItems[j] = before.menuItems[j]
        /\ \A k \in 1..Len(Fields) :
              req.body[Fields[k]] = Undefined =>
                  menuItems[Target][Fields[k]] = before.menuItems[Target][Fields[k]]
        /\ \A k \in 1..Len(Fields) :
              req.body[Fields[k]] # Undefined /\ Fields[k] # "id" =>
                  menuItems[Target][Fields[k]] = req.body[Fields[k]]
        /\ nextId = before.nextId
        /\ res.item[1] = menuItems[Target]
        /\ req.body = EmptyObject =>
              /\ menuItems = before.menuItems
              /\ res.item[1] = before.menuItems[Target]

\* A successful PUT of a price alone to an item that was made unavailable
\* earlier.
PriceUpdateOfUnavailable ==
    /\ Responded("PUT /api/menu/:id")
    /\ res.status = 200
    /\ req.body = With(EmptyObject, "price", Num(1050))
    /\ before.menuItems[Target].available = Bool(FALSE)

\* C7: a POST is refused exactly when its body violates the rule of some
\* field, and the details then name every violated field once, in the order
\* name, description, price, category, ingredients, available, each with a
\* message; a body violating k fields yields k entries.
CreateReportsEveryViolation ==
    Responded("POST /api/menu") =>
        LET violated == SelectSeq(ValidatedFields, ViolatedInRequest)
        IN  /\ res.status = 400 <=> Len(violated) > 0
            /\ res.status = 201 <=> Len(violated) = 0
            /\ ErrorFields(res.details) = violated
            /\ \A i \in 1..Len(res.details) : res.details[i].message # ""

\* A POST refused with two violations that are not adjacent in the order,
\* and nothing else wrong.
TwoViolationsReported ==
    /\ Responded("POST /api/menu")
    /\ res.status = 400
    /\ req.body.name = Str(<<"H","i">>)
    /\ req.body.price = Num(0)
    /\ ErrorFields(res.details) = << "name", "price" >>

\* C8: a PUT of an item the collection holds is refused exactly when a key its
\* body holds violates its rule, and the details then name exactly those keys,
\* in order; a key the body lacks is never reported and never required.
UpdateValidatesPresentOnly ==
    Responded("PUT /api/menu/:id") /\ HeldBefore(PathId) =>
        LET violated == SelectSeq(ValidatedFields, PresentAndViolatedInRequest)
        IN  /\ res.status = 200 <=> Len(violated) = 0
            /\ res.status = 400 <=> Len(violated) > 0
            /\ ErrorFields(res.details) = violated

\* A PUT refused for its price alone, its body lacking name and description.
PartialUpdateRefusedForPrice ==
    /\ Responded("PUT /api/menu/:id")
    /\ res.status = 400
    /\ req.body.name = Undefined
    /\ req.body.description = Undefined
    /\ ErrorFields(res.details) = << "price" >>

\* C9: the collection is in creation order, its ids strictly ascending, and
\* holds as many items as the seeds plus the creates minus the deletes; the
\* list request returns the collection as it is, with that count; a create
\* appends its item, an update keeps every item in its place, a delete removes
\* the target alone and keeps the order of the rest.
ListInCreationOrder ==
    /\ \A i, j \in 1..Len(menuItems) :
          i < j => /\ menuItems[i].id.t = "number"
                   /\ menuItems[j].id.t = "number"
                   /\ menuItems[i].id.n < menuItems[j].id.n
    /\ Len(menuItems) = Len(SeedItems) + creates - deletes
    /\ Responded("GET /api/menu") =>
          /\ res.status = 200
          /\ res.list[1].items = menuItems
          /\ res.list[1].count = Len(SeedItems) + creates - deletes
    /\ Responded("POST /api/menu") /\ res.status = 201 =>
          menuItems = Append(before.menuItems, res.item[1])
    /\ Responded("PUT /api/menu/:id") /\ res.status = 200 =>
          Ids(menuItems) = Ids(before.menuItems)
    /\ Responded("DELETE /api/menu/:id") /\ res.status = 200 =>
          /\ HeldBefore(PathId)
          /\ res.item[1] = before.menuItems[Target]
          /\ menuItems = SubSeq(before.menuItems, 1, Target - 1)
                           \o SubSeq(before.menuItems, Target + 1,
                                     Len(before.menuItems))

\* The list returned after a create and a delete.
ListAfterCreateAndDelete ==
    /\ Responded("GET /api/menu")
    /\ creates >= 1
    /\ deletes >= 1

\* C10: a request answered 400 or 404 leaves the collection and the id counter
\* as they were; the counter is 4 plus the number of successful creates, and
\* the k-th successful create returns id 3 + k, with available true when the
\* body leaves it out.
FailureChangesNothing ==
    /\ phase = "responded" /\ res.status \in { 400, 404 } =>
          /\ menuItems = before.menuItems
          /\ nextId = before.nextId
    /\ nextId = FirstNextId + creates
    /\ Responded("POST /api/menu") /\ res.status = 201 =>
          /\ res.item[1].id = Num(Len(SeedItems) + creates)
          /\ req.body.available = Undefined =>
                res.item[1].available = Bool(TRUE)
          /\ creates = 1 /\ before.menuItems = SeedItems =>
                res.item[1].id = Num(4)

\* A create refused after an earlier create succeeded.
CreateRefusedAfterCreate ==
    /\ Responded("POST /api/menu")
    /\ res.status = 400
    /\ creates >= 1

============================================================================
